---- MODULE Spec2Model ----
(***************************************************************************)
(* Model of the Zed extension PlexMediaServerExtension (src/src/lib.rs).   *)
(*                                                                         *)
(* The extension has one operation, context_server_command, which the host *)
(* calls with a context-server identifier and a project handle and which   *)
(* returns either a Command (executable, arguments, environment) or an     *)
(* error string.  Strings are TLA+ strings; concatenation is \o, length is *)
(* Len and a slice is SubSeq, so the error text is built the way format!   *)
(* builds it.  The body of the operation runs atomically on the extension  *)
(* object: it takes `&mut self`, an exclusive borrow.  What interleaves is *)
(* the host side: several callers may have a call requested, run or        *)
(* returned-but-not-yet-taken at the same time.                            *)
(***************************************************************************)
EXTENDS Integers, Sequences, FiniteSets, TLC

VARIABLES
    self,       \* the extension object (a unit struct: no fields)
    pc,         \* per caller: "idle", "running" (call issued), "returned"
    id,         \* per caller: the ContextServerId passed as argument
    project,    \* per caller: the Project handle passed as argument
    result,     \* per caller: the value the call returned, or NoResult
    history,    \* completed calls, oldest first: [id, result]
    effects     \* what the extension did outside its return values, oldest first

vars == <<self, pc, id, project, result, history, effects>>

----------------------------------------------------------------------------
(* Bounds of the model *)

NumCallers  == 2    \* callers of the host that may have a call in flight
NumProjects == 2    \* distinct project handles the host may pass
MaxCalls    == 3    \* calls issued in one behaviour

Callers  == 1..NumCallers
Projects == 1..NumProjects

\* Identifiers the host may pass: the registered one, and strings that differ
\* from it by case, by a trailing blank, by being a prefix, by being empty,
\* and an unrelated one.
Identifiers ==
    {"plex-mcp", "Plex-MCP", "plex-mcp ", "plex", "", "nonexistent"}

NoId      == "<none>"
NoResult  == [tag |-> "None", value |-> "<none>"]

----------------------------------------------------------------------------
(* The code *)

\* struct PlexMediaServerExtension;  -- a unit struct, the only value of its type
PlexMediaServerExtension == <<>>

\* zed::Result<zed::Command> = Result<Command, String>
Ok(v)  == [tag |-> "Ok", value |-> v]
Err(e) == [tag |-> "Err", value |-> e]

\* Default::default() of the env field (a Vec of pairs): empty
DefaultEnv == <<>>

PlexCommandSwapped ==
    [command |-> "uv", args |-> <<"plex-mcp", "run">>, env |-> DefaultEnv]

\* zed::Command { command: "uv", args: vec!["run", "plex-mcp"], env: default }
PlexCommand ==
    [command |-> "uv", args |-> <<"run", "plex-mcp">>, env |-> DefaultEnv]

UnknownServerTruncated(s) ==
    "Unknown server: " \o SubSeq(s, 1, IF Len(s) < 4 THEN Len(s) ELSE 4)

UnknownServerNoName(s) == "Unknown server"

\* format!("Unknown server: {}", id.0)
UnknownServer(s) == "Unknown server: " \o s

IsPlexMcpFolded(s) == s \in {"plex-mcp", "Plex-MCP"}

\* the pattern of the first match arm: the literal "plex-mcp"
IsPlexMcp(s) == s = "plex-mcp"

\* Variants of the operation that a slip in the code would produce.
CommandAlways(slf, i, p) ==
    [self |-> slf, effects |-> <<>>, ret |-> Ok(PlexCommand)]

CommandPerProject(slf, i, p) ==
    [self |-> slf,
     effects |-> <<>>,
     ret  |-> IF IsPlexMcp(i)
              THEN Ok([PlexCommand EXCEPT !.env = IF p = 1 THEN <<>>
                                                  ELSE <<<<"PROJECT", "2">>>>])
              ELSE Err(UnknownServer(i))]

CommandSticky(slf, i, p) ==
    IF slf # PlexMediaServerExtension
    THEN [self |-> slf, effects |-> <<>>, ret |-> Err(UnknownServer(slf[1]))]
    ELSE IF IsPlexMcp(i)
         THEN [self |-> slf, effects |-> <<>>, ret |-> Ok(PlexCommand)]
         ELSE [self |-> <<i>>, effects |-> <<>>, ret |-> Err(UnknownServer(i))]

CommandRemembering(slf, i, p) ==
    [self |-> <<i>>,
     effects |-> <<>>,
     ret  |-> IF IsPlexMcp(i) THEN Ok(PlexCommand) ELSE Err(UnknownServer(i))]

\* fn context_server_command(&mut self, id, _project) -> Result<Command>
\* The value returned, the extension object as the call leaves it, and what
\* the body does besides (processes started, files or sockets touched): the
\* body only builds Strings and a Vec, so nothing.
context_server_command(slf, i, p) ==
    [self |-> slf,
     effects |-> <<>>,
     ret  |-> IF IsPlexMcp(i) THEN Ok(PlexCommand) ELSE Err(UnknownServer(i))]

----------------------------------------------------------------------------
(* The host *)

InFlight == Cardinality({c \in Callers : pc[c] # "idle"})

Init ==
    /\ self = PlexMediaServerExtension
    /\ pc = [c \in Callers |-> "idle"]
    /\ id = [c \in Callers |-> NoId]
    /\ project = [c \in Callers |-> 0]
    /\ result = [c \in Callers |-> NoResult]
    /\ history = <<>>
    /\ effects = <<>>

\* The host issues a call with an identifier and a project handle.
Invoke(c) ==
    /\ pc[c] = "idle"
    /\ Len(history) + InFlight < MaxCalls
    /\ \E i \in Identifiers, p \in Projects :
          /\ id' = [id EXCEPT ![c] = i]
          /\ project' = [project EXCEPT ![c] = p]
    /\ pc' = [pc EXCEPT ![c] = "running"]
    /\ UNCHANGED <<self, result, history, effects>>

RunOther(c) ==
    /\ pc[c] = "running"
    /\ \E d \in Callers :
          /\ pc[d] = "running"
          /\ LET r == context_server_command(self, id[d], project[d])
             IN  /\ self' = r.self
                 /\ effects' = effects \o r.effects
                 /\ result' = [result EXCEPT ![c] = r.ret]
    /\ pc' = [pc EXCEPT ![c] = "returned"]
    /\ UNCHANGED <<id, project, history>>

RunKnownOnly(c) ==
    /\ pc[c] = "running"
    /\ IsPlexMcp(id[c])
    /\ LET r == context_server_command(self, id[c], project[c])
       IN  /\ self' = r.self
           /\ effects' = effects \o r.effects
           /\ result' = [result EXCEPT ![c] = r.ret]
    /\ pc' = [pc EXCEPT ![c] = "returned"]
    /\ UNCHANGED <<id, project, history>>

\* The body of context_server_command runs, from entry to return.
Run(c) ==
    /\ pc[c] = "running"
    /\ LET r == context_server_command(self, id[c], project[c])
       IN  /\ self' = r.self
           /\ effects' = effects \o r.effects
           /\ result' = [result EXCEPT ![c] = r.ret]
    /\ pc' = [pc EXCEPT ![c] = "returned"]
    /\ UNCHANGED <<id, project, history>>

\* The host takes the returned value; the call is over.
Deliver(c) ==
    /\ pc[c] = "returned"
    /\ history' = Append(history, [id |-> id[c], result |-> result[c]])
    /\ pc' = [pc EXCEPT ![c] = "idle"]
    /\ id' = [id EXCEPT ![c] = NoId]
    /\ project' = [project EXCEPT ![c] = 0]
    /\ result' = [result EXCEPT ![c] = NoResult]
    /\ UNCHANGED <<self, effects>>

Next ==
    \E c \in Callers :
        \/ Invoke(c)
        \/ Run(c)
        \/ Deliver(c)

Spec == Init /\ [][Next]_vars

\* A call that was issued runs: the body is straight-line code.
FairSpec == Spec /\ \A c \in Callers : WF_vars(Run(c))

----------------------------------------------------------------------------
(* Properties *)

\* Every call that has returned: those the host has taken (history) and
\* those still held by a caller.
Completed ==
    {history[k] : k \in 1..Len(history)}
    \cup {[id |-> id[c], result |-> result[c]] :
            c \in {d \in Callers : pc[d] = "returned"}}

\* sub occurs in s as a contiguous run of characters
Contains(s, sub) ==
    \E k \in 1..(Len(s) - Len(sub) + 1) : SubSeq(s, k, k + Len(sub) - 1) = sub

\* s and t have the same length and the same character at every position
SameChars(s, t) ==
    /\ Len(s) = Len(t)
    /\ \A k \in 1..Len(s) : SubSeq(s, k, k) = SubSeq(t, k, k)

\* the result of a call on an extension object that has served no call
RunAlone(i, p) == context_server_command(PlexMediaServerExtension, i, p).ret

\* C1: a call with the identifier "plex-mcp" returns Ok with the command
\* "uv", the two arguments "run", "plex-mcp" in that order, and an empty
\* environment.
C1_PlexMcpDescriptor ==
    \A r \in Completed :
        r.id = "plex-mcp" =>
            /\ r.result.tag = "Ok"
            /\ r.result.value.command = "uv"
            /\ Len(r.result.value.args) = 2
            /\ r.result.value.args[1] = "run"
            /\ r.result.value.args[2] = "plex-mcp"
            /\ r.result.value.env = <<>>

C1_Witness ==
    \E r \in Completed : r.id = "plex-mcp" /\ r.result.tag = "Ok"

\* C2: a call with any identifier other than "plex-mcp" returns an error
\* whose text contains the identifier unmodified (here: as its tail).
C2_UnknownCarriesId ==
    \A r \in Completed :
        r.id # "plex-mcp" =>
            /\ r.result.tag = "Err"
            /\ Contains(r.result.value, r.id)
            /\ SubSeq(r.result.value,
                      Len(r.result.value) - Len(r.id) + 1,
                      Len(r.result.value)) = r.id

C2_Witness ==
    /\ \E r \in Completed : r.id = "nonexistent" /\ r.result.tag = "Err"
    /\ \E r \in Completed : r.id = "" /\ r.result.tag = "Err"
    /\ \E r \in Completed : r.id = "Plex-MCP" /\ r.result.tag = "Err"

\* C3: a call returns either one descriptor (Ok) or one failure (Err), never
\* anything else; it is Ok exactly when the identifier is in the closed set
\* of recognized identifiers, and a failure is always the unknown-server one.
C3_TwoOutcomes ==
    \A r \in Completed :
        /\ r.result.tag \in {"Ok", "Err"}
        /\ (r.result.tag = "Ok") <=> (r.id \in {"plex-mcp"})
        /\ r.result.tag = "Ok" =>
              DOMAIN r.result.value = {"command", "args", "env"}
        /\ r.result.tag = "Err" =>
              /\ r.id \notin {"plex-mcp"}
              /\ SubSeq(r.result.value, 1, 16) = "Unknown server: "

C3_Witness ==
    /\ \E r \in Completed : r.id \in {"plex-mcp"} /\ r.result.tag = "Ok"
    /\ \E r \in Completed : r.id \notin {"plex-mcp"} /\ r.result.tag = "Err"

\* C4: two calls with the same identifier and different project handles
\* return equal results.
C4_ProjectIgnored ==
    \A c \in Callers, d \in Callers :
        (/\ pc[c] = "returned" /\ pc[d] = "returned"
         /\ id[c] = id[d] /\ project[c] # project[d])
            => result[c] = result[d]

C4_Witness ==
    \E c \in Callers, d \in Callers :
        /\ pc[c] = "returned" /\ pc[d] = "returned"
        /\ id[c] = "plex-mcp" /\ id[d] = "plex-mcp"
        /\ project[c] # project[d]
        /\ result[c].tag = "Ok" /\ result[d].tag = "Ok"

\* C5: whatever calls came before, a call returns what a first call with the
\* same identifier returns; two calls of one behaviour with the same
\* identifier return the same; and a "plex-mcp" call after a failed call
\* succeeds.
C5_HistoryIndependent ==
    \A k \in 1..Len(history) :
        /\ \A p \in Projects : history[k].result = RunAlone(history[k].id, p)
        /\ \A j \in 1..(k - 1) :
              /\ history[j].id = history[k].id =>
                    history[j].result = history[k].result
              /\ (history[j].result.tag = "Err" /\ history[k].id = "plex-mcp")
                    => history[k].result.tag = "Ok"

C5_Witness ==
    /\ Len(history) >= 3
    /\ history[1].result.tag = "Err"
    /\ history[2].id = "plex-mcp" /\ history[2].result.tag = "Ok"
    /\ history[3].id = history[1].id /\ history[3].result.tag = "Err"

\* C6: the step in which the body runs changes only the caller's returned
\* value: the extension object, the arguments, the other callers, the
\* completed calls and the outside world (no process started) stay as they
\* were, on the Ok path and on the Err path.
C6_NoSideEffects ==
    [][\A c \in Callers :
          (pc[c] = "running" /\ pc'[c] = "returned") =>
              /\ self' = self
              /\ effects' = effects
              /\ id' = id
              /\ project' = project
              /\ history' = history
              /\ \A d \in Callers \ {c} :
                    pc'[d] = pc[d] /\ result'[d] = result[d]]_vars

C6_Witness ==
    /\ \E c \in Callers : pc[c] = "returned" /\ result[c].tag = "Ok"
    /\ \E c \in Callers : pc[c] = "returned" /\ result[c].tag = "Err"
    /\ self = PlexMediaServerExtension
    /\ effects = <<>>

\* C7: with other calls in flight, in any interleaving, a call can run
\* whenever it has been issued (no ordering, no exclusivity), and what it
\* returned is what it returns when run alone.
C7_Interleaving ==
    \A c \in Callers :
        /\ pc[c] = "running" => ENABLED Run(c)
        /\ pc[c] = "returned" => result[c] = RunAlone(id[c], project[c])

C7_Witness ==
    \E c \in Callers, d \in Callers :
        /\ c # d
        /\ pc[c] = "returned" /\ pc[d] = "returned"
        /\ id[c] # id[d]
        /\ Len(history) > 0

\* C8: every call that was issued returns, for known and unknown identifiers.
C8_Terminates ==
    \A c \in Callers : (pc[c] = "running") ~> (pc[c] = "returned")

C8_Witness ==
    /\ \E r \in Completed : r.id = "plex-mcp"
    /\ \E r \in Completed : r.id = "nonexistent"
    /\ \A c \in Callers : pc[c] # "running"

\* C9: a call succeeds exactly when the identifier is "plex-mcp" character
\* for character; "Plex-MCP", "plex-mcp ", "plex" and "" never succeed.
C9_ExactMatch ==
    \A r \in Completed :
        /\ (r.result.tag = "Ok") <=> SameChars(r.id, "plex-mcp")
        /\ r.id \in {"Plex-MCP", "plex-mcp ", "plex", ""} => r.result.tag # "Ok"

C9_Witness ==
    /\ \E r \in Completed : r.id = "plex-mcp" /\ r.result.tag = "Ok"
    /\ \E r \in Completed : r.id = "Plex-MCP" /\ r.result.tag = "Err"
    /\ \E r \in Completed : r.id = "plex-mcp " /\ r.result.tag = "Err"

\* C10: the error of a failed call is the text "Unknown server: " followed
\* by the identifier; the identifier is read back from it, and two failed
\* calls with different identifiers have different errors.
C10_ErrorText ==
    /\ \A r \in Completed :
          r.result.tag = "Err" =>
              /\ r.result.value = "Unknown server: " \o r.id
              /\ SubSeq(r.result.value, 17, Len(r.result.value)) = r.id
    /\ \A r1 \in Completed, r2 \in Completed :
          (r1.result.tag = "Err" /\ r2.result.tag = "Err" /\ r1.id # r2.id)
              => r1.result.value # r2.result.value

C10_Witness ==
    \E r1 \in Completed, r2 \in Completed :
        /\ r1.result.tag = "Err" /\ r2.result.tag = "Err"
        /\ r1.id = "plex" /\ r2.id = "plex-mcp "

====
